---- MODULE Spec2Model ----
(***************************************************************************)
(* Contact form controller of src/src/App.jsx (the same logic is repeated  *)
(* verbatim in src/unnamed/part_000, lines 1-81): field state, validation, *)
(* the single POST and the status / error reporting.                       *)
(*                                                                         *)
(* Field texts are sequences of characters; messages (error texts, status  *)
(* text, response bodies, exception messages) are TLA+ strings.  A value   *)
(* stored in the errors object or in the object literal handed to          *)
(* JSON.stringify is a tagged record: Str(v) or Undefined.                 *)
(***************************************************************************)
EXTENDS Naturals, Sequences, FiniteSets

VARIABLES form, errors, statusText, isSubmitting, requests, last

vars == <<form, errors, statusText, isSubmitting, requests, last>>

\* ------------------------------------------------------------ bounds
\* longest email text enumerated by EmailSpec
MaxEmailLen == 6

\* ------------------------------------------------------------ values
Fields == {"name", "email", "phone", "message"}

ErrorKeys == Fields \cup {"form"}

\* characters of the field texts: a letter, an upper-case letter, '@', '.'
\* and a whitespace character
Char == {"a", "A", "@", ".", " "}

IsWhitespace(c) == c = " "

Undefined == [defined |-> FALSE]

Str(v) == [defined |-> TRUE, val |-> v]

\* String.prototype.toLowerCase, character by character
LowerChar(c) == IF c = "A" THEN "a" ELSE c

ToLowerCase(s) == [i \in 1..Len(s) |-> LowerChar(s[i])]

\* String.prototype.trim: strip whitespace from the head, then from the tail
RECURSIVE TrimStart(_)
TrimStart(s) ==
  IF s = <<>> THEN s
  ELSE IF IsWhitespace(Head(s)) THEN TrimStart(Tail(s)) ELSE s

RECURSIVE TrimEnd(_)
TrimEnd(s) ==
  IF s = <<>> THEN s
  ELSE IF IsWhitespace(s[Len(s)]) THEN TrimEnd(SubSeq(s, 1, Len(s) - 1)) ELSE s

Trim(s) == TrimEnd(TrimStart(s))

\* ------------------------------------------------------------ isValidEmail
\* the character class [^\s@]
NotSpaceNorAt(c) == ~IsWhitespace(c) /\ c # "@"

\* [^\s@]+ started at position i of s: the positions right after each
\* non-empty run it can consume (backtracking tries every one of them)
PlusEnds(s, i) ==
  {j \in (i + 1)..(Len(s) + 1) : \A k \in i..(j - 1) : NotSpaceNorAt(s[k])}

\* /[^\s@]+@[^\s@]+\.[^\s@]+/.test(s): unanchored, so every start is tried
RegexTest(s) ==
  \E start \in 1..Len(s) :
    \E p1 \in PlusEnds(s, start) :
      /\ p1 <= Len(s)
      /\ s[p1] = "@"
      /\ \E p2 \in PlusEnds(s, p1 + 1) :
           /\ p2 <= Len(s)
           /\ s[p2] = "."
           /\ PlusEnds(s, p2 + 1) # {}

\* variant: the same pattern anchored at both ends, /^...$/
RegexTestAnchored(s) ==
  \E p1 \in PlusEnds(s, 1) :
    /\ p1 <= Len(s)
    /\ s[p1] = "@"
    /\ \E p2 \in PlusEnds(s, p1 + 1) :
         /\ p2 <= Len(s)
         /\ s[p2] = "."
         /\ (Len(s) + 1) \in PlusEnds(s, p2 + 1)

isValidEmailAnchored(email) == RegexTestAnchored(ToLowerCase(email))

\* isValidEmail: the pattern tested on the lower-cased text
isValidEmail(email) == RegexTest(ToLowerCase(email))

\* ------------------------------------------------------------ validate
\* variant: the same test without the trim
isFormEmptyUntrimmed(f) == \A k \in DOMAIN f : f[k] = <<>>

\* Object.values(form).every((v) => !String(v || "").trim())
isFormCompletelyEmpty(f) == \A k \in DOMAIN f : Trim(f[k]) = <<>>

FormErrors(f) ==
  IF isFormCompletelyEmpty(f)
  THEN {<<"form", "Please fill at least the email field.">>}
  ELSE {}

EmailErrors(f) ==
  IF Trim(f.email) = <<>> THEN {<<"email", "Email is required">>}
  ELSE IF ~isValidEmail(f.email) THEN {<<"email", "Enter a valid email">>}
  ELSE {}

\* nextErrors of validate(): an object holding only the keys assigned
validate(f) ==
  LET assigned == FormErrors(f) \cup EmailErrors(f)
      keys == {p[1] : p \in assigned}
  IN  [k \in keys |-> Str((CHOOSE p \in assigned : p[1] = k)[2])]

\* variant: the result of validate() is not looked at
NoKeysIgnored(nextErrors) == TRUE

\* Object.keys(nextErrors).length === 0
NoKeys(nextErrors) == DOMAIN nextErrors = {}

\* ------------------------------------------------------------ request body
\* x || undefined, for a string x
OrUndefined(x) == IF x = <<>> THEN Undefined ELSE Str(x)

\* variant: x, without the || undefined
AlwaysStr(x) == Str(x)

\* the value of name, phone and message in the body object
OptionalField(x) == OrUndefined(x)

BodyObject(f) ==
  [email   |-> Str(Trim(f.email)),
   name    |-> OptionalField(Trim(f.name)),
   phone   |-> OptionalField(Trim(f.phone)),
   message |-> OptionalField(Trim(f.message))]

\* JSON.stringify of an object: keys whose value is undefined are dropped
JSONstringify(obj) ==
  [k \in {k \in DOMAIN obj : obj[k].defined} |-> obj[k].val]

RequestBody(f) == JSONstringify(BodyObject(f))

\* ------------------------------------------------------------ state updates
\* variant: the entry is left as it was
KeepFieldError(prev, name) == prev

\* (prev) => ({ ...prev, [name]: undefined })
ClearFieldError(prev, name) ==
  [k \in (DOMAIN prev) \cup {name} |-> IF k = name THEN Undefined ELSE prev[k]]

\* text || fallback, for strings
OrFallback(text, fallback) == IF text = "" THEN fallback ELSE text

\* variant: the text is used as it is
NoFallback(text, fallback) == text

\* the message stored under errors.form
FormMessage(text, fallback) == OrFallback(text, fallback)

\* (e) => ({ ...e, form: msg })
WithFormError(e, msg) ==
  [k \in (DOMAIN e) \cup {"form"} |-> IF k = "form" THEN Str(msg) ELSE e[k]]

\* what the page shows for a key: the message, or nothing
ErrorShownIn(e, k) == IF k \in DOMAIN e /\ e[k].defined THEN e[k].val ELSE ""

ErrorShown(k) == ErrorShownIn(errors, k)

\* ------------------------------------------------------------ inputs
ValidEmailText == <<" ", "a", "@", "b", ".", "c", " ">>

TwoAtEmailText == <<"a", "@", "b", ".", "c", "@">>

EmailInputs ==
  {<<>>, <<" ">>, ValidEmailText, TwoAtEmailText, <<"a", "@", "b">>, <<"A", ".", "b">>}

NameInputs == {<<>>, <<" ">>, <<" ", "a", " ">>}

PhoneInputs == {<<>>, <<" ", "a">>}

MessageInputs == {<<>>, <<"a", " ">>}

InputsOf(field) ==
  IF field = "email" THEN EmailInputs
  ELSE IF field = "name" THEN NameInputs
  ELSE IF field = "phone" THEN PhoneInputs
  ELSE MessageInputs

\* response body texts and exception messages
BodyTexts == {"", "Too many requests"}

ErrMessages == {"", "timeout"}

\* all texts of at most n characters
TextsUpTo(n) == UNION {[1..m -> Char] : m \in 0..n}

\* ------------------------------------------------------------ initial state
Init ==
  /\ form = [name |-> <<>>, email |-> <<>>, phone |-> <<>>, message |-> <<>>]
  /\ errors = <<>>
  /\ statusText = ""
  /\ isSubmitting = FALSE
  /\ requests = <<>>
  /\ last = [op |-> "init", arg |-> "", val |-> <<>>]

\* ------------------------------------------------------------ actions
\* handleChange: an edit of one input
handleChange(name, value) ==
  /\ form' = [form EXCEPT ![name] = value]
  /\ errors' = ClearFieldError(errors, name)
  /\ last' = [op |-> "change", arg |-> name, val |-> value]
  /\ UNCHANGED <<statusText, isSubmitting, requests>>

\* variant: the button is never disabled
SubmitNeverDisabled == FALSE

\* <button type="submit" disabled={isSubmitting}>
SubmitDisabled == isSubmitting

\* variant: no finally block
FinallyForgotten == UNCHANGED isSubmitting

\* finally { setIsSubmitting(false) }
Finally == isSubmitting' = FALSE

\* variant: the status is not cleared
StatusKept == statusText

\* setStatusText("") at the head of handleSubmit
StatusOnSubmit == ""

\* handleSubmit up to the fetch call: the submit gesture
handleSubmit ==
  /\ ~SubmitDisabled
  /\ statusText' = StatusOnSubmit
  /\ LET nextErrors == validate(form) IN
       /\ errors' = nextErrors
       /\ IF NoKeys(nextErrors)
          THEN /\ isSubmitting' = TRUE
               /\ requests' = Append(requests,
                                [body |-> RequestBody(form), phase |-> "fetch"])
               /\ last' = [op |-> "post", arg |-> "", val |-> <<>>]
          ELSE /\ UNCHANGED <<isSubmitting, requests>>
               /\ last' = [op |-> "abort", arg |-> "", val |-> <<>>]
  /\ UNCHANGED form

Remove(q, i) == SubSeq(q, 1, i - 1) \o SubSeq(q, i + 1, Len(q))

\* variant: the 2xx branch with the setForm reset of line 68 enabled
FetchOkResetsForm(i) ==
  /\ requests[i].phase = "fetch"
  /\ statusText' = "Form Submitted"
  /\ errors' = <<>>
  /\ Finally
  /\ requests' = Remove(requests, i)
  /\ last' = [op |-> "ok", arg |-> "", val |-> <<>>]
  /\ form' = [name |-> <<>>, email |-> <<>>, phone |-> <<>>, message |-> <<>>]

\* fetch resolved with response.ok
FetchOk(i) ==
  /\ requests[i].phase = "fetch"
  /\ statusText' = "Form Submitted"
  /\ errors' = <<>>
  /\ Finally
  /\ requests' = Remove(requests, i)
  /\ last' = [op |-> "ok", arg |-> "", val |-> <<>>]
  /\ UNCHANGED form

\* fetch resolved with a non-2xx response: await response.text()
FetchNotOk(i) ==
  /\ requests[i].phase = "fetch"
  /\ requests' = [requests EXCEPT ![i].phase = "text"]
  /\ last' = [op |-> "notok", arg |-> "", val |-> <<>>]
  /\ UNCHANGED <<form, errors, statusText, isSubmitting>>

\* response.text() resolved
TextResolved(i, text) ==
  /\ requests[i].phase = "text"
  /\ statusText' = "Submission failed"
  /\ errors' = WithFormError(errors, FormMessage(text, "Something went wrong"))
  /\ Finally
  /\ requests' = Remove(requests, i)
  /\ last' = [op |-> "http_error", arg |-> text, val |-> <<>>]
  /\ UNCHANGED form

\* the catch block, entered from fetch or from response.text()
Catch(i, phase, message) ==
  /\ requests[i].phase = phase
  /\ statusText' = "Submission failed"
  /\ errors' = WithFormError(errors, FormMessage(message, "Network error"))
  /\ Finally
  /\ requests' = Remove(requests, i)
  /\ last' = [op |-> IF phase = "fetch" THEN "rejected" ELSE "read_throw",
              arg |-> message, val |-> <<>>]
  /\ UNCHANGED form

Change == \E name \in Fields : \E value \in InputsOf(name) : handleChange(name, value)

Submit == handleSubmit

ResponseOk == \E i \in 1..Len(requests) : FetchOk(i)

ResponseNotOk == \E i \in 1..Len(requests) : FetchNotOk(i)

BodyRead == \E i \in 1..Len(requests) : \E text \in BodyTexts : TextResolved(i, text)

FetchRejected ==
  \E i \in 1..Len(requests) : \E message \in ErrMessages : Catch(i, "fetch", message)

BodyReadThrew ==
  \E i \in 1..Len(requests) : \E message \in ErrMessages : Catch(i, "text", message)

Settle == ResponseOk \/ ResponseNotOk \/ BodyRead \/ FetchRejected \/ BodyReadThrew

Next == Change \/ Submit \/ Settle

Spec == Init /\ [][Next]_vars

\* every request eventually resolves or rejects, and so does reading its body
FairSpec == Spec /\ WF_vars(Settle)

\* validate() applied to every email text of at most MaxEmailLen characters
EmailInit ==
  /\ form \in [name : {<<>>}, email : TextsUpTo(MaxEmailLen),
               phone : {<<>>}, message : {<<>>}]
  /\ errors = <<>>
  /\ statusText = ""
  /\ isSubmitting = FALSE
  /\ requests = <<>>
  /\ last = [op |-> "init", arg |-> "", val |-> <<>>]

EmailNext == Submit

EmailSpec == EmailInit /\ [][EmailNext]_vars

\* ------------------------------------------------------------ properties
\* The properties describe texts on their own terms (positions and
\* characters), not through Trim or RegexTest.

Blank(s) == \A i \in 1..Len(s) : s[i] = " "

AllBlank(f) == \A k \in Fields : Blank(f[k])

\* t is s without its leading and trailing whitespace
IsTrimOf(t, s) ==
  \/ t = <<>> /\ Blank(s)
  \/ \E i \in 1..Len(s) : \E j \in i..Len(s) :
       /\ t = SubSeq(s, i, j)
       /\ s[i] # " " /\ s[j] # " "
       /\ \A k \in 1..Len(s) : (k < i \/ k > j) => s[k] = " "

Plain(c) == c \notin {" ", "@"}

\* some '@' of s has a plain character right before it, and after it a
\* non-empty run of plain characters, a '.', and one more plain character
LoosePattern(s) ==
  \E i \in 1..Len(s) : \E j \in 1..Len(s) :
    /\ s[i] = "@" /\ s[j] = "."
    /\ i > 1 /\ Plain(s[i - 1])
    /\ j > i + 1 /\ \A k \in (i + 1)..(j - 1) : Plain(s[k])
    /\ j < Len(s) /\ Plain(s[j + 1])

\* the reading of "exactly one '@'" closest to LoosePattern: s holds a
\* single '@', and the loose pattern around it
ExactlyOneAtPattern(s) ==
  /\ Cardinality({i \in 1..Len(s) : s[i] = "@"}) = 1
  /\ LoosePattern(s)

LacksAt(s) == \A i \in 1..Len(s) : s[i] # "@"

LacksDotAfterAt(s) ==
  ~\E i \in 1..Len(s) : \E j \in (i + 1)..Len(s) : s[i] = "@" /\ s[j] = "."

NoErrorShown == \A k \in ErrorKeys : ErrorShown(k) = ""

Submitted == last.op \in {"post", "abort"}

\* C1: a POST is issued only by a submit gesture on a form whose email is
\* non-blank and well-formed; a submit gesture on a form with a blank or
\* malformed email (all fields blank included) issues no POST, leaves
\* isSubmitting false and the fields alone, and ends with an error shown.
C1_NoPostUnlessValid ==
  [][/\ Len(requests') > Len(requests) =>
          /\ last'.op = "post"
          /\ ~Blank(form.email) /\ LoosePattern(form.email)
     /\ (last'.op \in {"post", "abort"}
           /\ (Blank(form.email) \/ ~LoosePattern(form.email))) =>
          /\ last'.op = "abort"
          /\ requests' = requests
          /\ ~isSubmitting /\ ~isSubmitting'
          /\ form' = form
          /\ statusText' = ""
          /\ ErrorShown("email")' # ""
          /\ AllBlank(form) => ErrorShown("form")' # ""]_vars

C1_Witness ==
  /\ last.op = "abort"
  /\ ~Blank(form.email)
  /\ ErrorShown("email") = "Enter a valid email"
  /\ requests = <<>> /\ ~isSubmitting

\* C2 (as amended): after a submit gesture on a non-blank email, no email
\* error is shown and validation passed if and only if the email contains
\* a match of the loose pattern anywhere in it; otherwise errors.email is
\* "Enter a valid email" and the submit was aborted.  Every email lacking
\* '@', or lacking a '.' after an '@', is marked invalid.
C2_LoosePatternDecides ==
  (Submitted /\ ~Blank(form.email)) =>
    /\ LoosePattern(form.email) =>
         (ErrorShown("email") = "" /\ last.op = "post")
    /\ ~LoosePattern(form.email) =>
         (ErrorShown("email") = "Enter a valid email" /\ last.op = "abort")
    /\ (LacksAt(form.email) \/ LacksDotAfterAt(form.email)) =>
         ErrorShown("email") = "Enter a valid email"

C2_Witness ==
  /\ last.op = "post"
  /\ Cardinality({i \in 1..Len(form.email) : form.email[i] = "@"}) = 2
  /\ ErrorShown("email") = ""

\* C2 (as stated): a non-blank email is accepted if and only if it contains
\* exactly one '@' with non-whitespace on both sides and a '.' after it
\* with non-whitespace between.
C2_ExactlyOneAt ==
  (Submitted /\ ~Blank(form.email)) =>
    /\ ExactlyOneAtPattern(form.email) =>
         (ErrorShown("email") = "" /\ last.op = "post")
    /\ ~ExactlyOneAtPattern(form.email) =>
         (ErrorShown("email") = "Enter a valid email" /\ last.op = "abort")

\* C3: after a submit gesture on a form whose email is blank, the submit was
\* aborted with errors.email = "Email is required"; the form-level error is
\* shown exactly when all four fields are blank, and otherwise the
\* email-required error is the only entry of errors.
C3_EmailRequired ==
  (Submitted /\ Blank(form.email)) =>
    /\ last.op = "abort"
    /\ ErrorShown("email") = "Email is required"
    /\ AllBlank(form) <=>
         ErrorShown("form") = "Please fill at least the email field."
    /\ ~AllBlank(form) => DOMAIN errors = {"email"}
    /\ \A k \in Fields \ {"email"} : ErrorShown(k) = ""

C3_Witness ==
  /\ last.op = "abort"
  /\ Blank(form.email) /\ form.email # <<>>
  /\ ~Blank(form.name)
  /\ DOMAIN errors = {"email"}

\* C4: a request that ended in a non-2xx response leaves the status
\* "Submission failed" and errors.form equal to the body text, or to
\* "Something went wrong" for an empty body; a rejected fetch or a throw
\* while reading the body leaves the status "Submission failed" and
\* errors.form equal to the message, or to "Network error" for an empty one.
C4_FailureReported ==
  /\ last.op = "http_error" =>
       /\ statusText = "Submission failed"
       /\ ErrorShown("form") # ""
       /\ ErrorShown("form") =
            (IF last.arg = "" THEN "Something went wrong" ELSE last.arg)
  /\ last.op \in {"rejected", "read_throw"} =>
       /\ statusText = "Submission failed"
       /\ ErrorShown("form") # ""
       /\ ErrorShown("form") =
            (IF last.arg = "" THEN "Network error" ELSE last.arg)

C4_Witness ==
  /\ last.op = "read_throw"
  /\ last.arg = ""
  /\ ErrorShown("form") = "Network error"
  /\ statusText = "Submission failed"

\* C5: a request that ended in a 2xx response leaves the status
\* "Form Submitted" and no error message for any key, and the step changes
\* none of the four field values.
C5_SuccessKeepsFields ==
  /\ [](last.op = "ok" => (statusText = "Form Submitted" /\ NoErrorShown))
  /\ [][last'.op = "ok" => form' = form]_vars

C5_Witness ==
  /\ last.op = "ok"
  /\ statusText = "Form Submitted"
  /\ ~Blank(form.name) /\ ~Blank(form.email)

\* C6: isSubmitting is true exactly while a validated submit's request is
\* pending: false initially, false after an aborted submit and after every
\* outcome (2xx, non-2xx, rejected, throw while reading the body); and,
\* every request being settled eventually, true leads to false.
C6_SubmittingWindow ==
  /\ [](isSubmitting <=> requests # <<>>)
  /\ [](last.op \in {"init", "abort", "ok", "http_error", "rejected",
                     "read_throw"} => ~isSubmitting)
  /\ [](last.op \in {"post", "notok"} => isSubmitting)
  /\ (isSubmitting ~> ~isSubmitting)

C6_Witness == last.op = "read_throw" /\ ~isSubmitting /\ requests = <<>>

\* C7: at most one request is in flight; while isSubmitting is true no
\* submit gesture is possible, and field edits are possible.
C7_SingleFlight ==
  /\ Len(requests) <= 1
  /\ isSubmitting => ~ENABLED Submit
  /\ isSubmitting => \A name \in Fields : \A value \in InputsOf(name) :
                       ENABLED (handleChange(name, value) /\ form'[name] = value)

C7_Witness ==
  /\ isSubmitting
  /\ Len(requests) = 1
  /\ last.op = "change"
  /\ Blank(form.email)
  /\ ~Blank(requests[1].body.email)

\* C8: an edit of one field sets that field to the value and leaves no
\* error entry for it, and changes nothing else: the other fields, the
\* other entries of errors (errors.form included), the status, isSubmitting
\* and the requests in flight.
C8_ChangeFrame ==
  [][last'.op = "change" =>
       LET name == last'.arg IN
         /\ form'[name] = last'.val
         /\ \A k \in Fields \ {name} : form'[k] = form[k]
         /\ ErrorShownIn(errors', name) = ""
         /\ DOMAIN errors' = (DOMAIN errors) \cup {name}
         /\ errors'[name] = Undefined
         /\ \A k \in (DOMAIN errors) \ {name} : errors'[k] = errors[k]
         /\ statusText' = statusText
         /\ isSubmitting' = isSubmitting
         /\ requests' = requests]_vars

C8_Witness ==
  /\ last.op = "change"
  /\ last.arg = "email"
  /\ isSubmitting
  /\ ErrorShown("email") = ""
  /\ "email" \in DOMAIN errors

\* C9: the body of a POST holds email, the email field without its leading
\* and trailing whitespace, and holds name, phone or message exactly when
\* that field is non-blank, likewise stripped and never empty; the fields
\* are those of the submit gesture, and no later step changes the body.
C9_BodyFromFields ==
  /\ [][Len(requests') > Len(requests) =>
          LET body == requests'[Len(requests')].body IN
            /\ "email" \in DOMAIN body
            /\ IsTrimOf(body.email, form.email)
            /\ DOMAIN body \subseteq Fields
            /\ \A k \in Fields \ {"email"} :
                 /\ k \in DOMAIN body <=> ~Blank(form[k])
                 /\ k \in DOMAIN body =>
                      (body[k] # <<>> /\ IsTrimOf(body[k], form[k]))]_vars
  /\ [][(requests # <<>> /\ requests' # <<>>) =>
          requests'[1].body = requests[1].body]_vars

C9_Witness ==
  /\ requests # <<>>
  /\ DOMAIN requests[1].body = {"email", "name"}
  /\ requests[1].body.name = <<"a">>
  /\ last.op = "change" /\ last.arg = "name" /\ form.name = <<>>

\* C10: the status is "", "Form Submitted" or "Submission failed"; while it
\* is "Form Submitted" no error message is shown for any key; while it is
\* "Submission failed" errors.form is a non-empty message.
C10_StatusConsistent ==
  /\ statusText \in {"", "Form Submitted", "Submission failed"}
  /\ statusText = "Form Submitted" => NoErrorShown
  /\ statusText = "Submission failed" => ErrorShown("form") # ""

C10_Witness ==
  /\ last.op = "change"
  /\ statusText = "Submission failed"
  /\ ErrorShown("form") = "timeout"
  /\ "email" \in DOMAIN errors

====
